---- MODULE Spec2Model ----
(***************************************************************************)
(* A model of rust-aobench (src/ao.rs and its later revision              *)
(* src/src/main.rs): ray/object intersection, the ambient-occlusion       *)
(* estimator, the per-pixel sampler, the row dispatcher of                *)
(* render_multitask with its worker tasks, and the PPM writer.            *)
(*                                                                         *)
(* Floating-point values are fixed-point integers in units of 1/UNIT.      *)
(* UNIT is a power of two, as the floats' radix is, so that the divisions *)
(* by 4, 64 and 256 the renderer performs are exact here as they are in    *)
(* the program.                                                            *)
(***************************************************************************)
EXTENDS Integers, Sequences, FiniteSets, TLC

VARIABLES
    \* ---- render_multitask / render_multitask_run ----
    width,          \* parameter of render_multitask
    height,         \* parameter of render_multitask
    num_task,       \* parameter of render_multitask
    rows,           \* render_line as a fixed function of the row index
    pc,             \* position of the dispatcher (the task running render_multitask)
    i,              \* the dispatcher's loop index
    senders,        \* senders[w]: row indices in flight to worker w (Chan<uint>)
    receivers,      \* receivers[w]: results in flight from worker w (Port<RenderedPixels>)
    result_store,   \* the per-row slots
    rendered_line,
    assigned_line,
    pixels,         \* what render_multitask returns
    wpc,            \* wpc[w]: position of worker w
    wline,          \* wline[w]: the row worker w is rendering
    sent,           \* history: sent[w] is every message sent to worker w, in order
    writes,         \* history: writes[y] counts the assignments to result_store[y]
    received,       \* history: the row indices in the order the dispatcher received them
    failed,         \* the dispatcher task failed (index out of bounds)
    \* ---- Object::intersect ----
    gpc,            \* position in the function a sequential specification runs
    objects,        \* the scene
    obj,            \* the object of one intersect call
    ray,
    isect,          \* the IntersectInfo record
    before,         \* history: the record as it was before the last intersect call
    ret,            \* what the last intersect call returned
    visited,        \* the number of scene objects the traversal has visited
    hit,            \* render_line's `hit`
    committed,      \* history: index of the object that last wrote isect (0: none)
    \* ---- render_line ----
    nsubsamples,    \* parameter of render_line
    _y, _x, _u, _v, \* the row, and the indices of the pixel and sub-sample loops
    occlusion,      \* the pixel's accumulator
    linebuf,        \* render_line's `line`: the pixels pushed so far
    rng,            \* the state of the random number generator
    ao_calls,       \* history: calls of ambient_occlusion for the current pixel
    candidates,     \* history: sub-samples of the current pixel whose ray meets an object
    \* ---- ambient_occlusion ----
    ao,             \* the state of its loops: samples done, occlusion, occ_isect, rng, ray
    ao_result,      \* what it returned
    \* ---- saveppm ----
    revision,       \* which revision's saveppm runs: "ao.rs" or "main.rs"
    file,           \* the bytes written so far
    written         \* how many pixels the loop over `pixels` has visited

sizeVars == <<width, height>>
mtVars == <<num_task, rows, pc, i, senders, receivers, result_store,
            rendered_line, assigned_line, wpc, wline, sent, writes, received,
            failed>>
rayVars == <<objects, obj, ray, isect, before, ret, visited, hit, committed>>
lineVars == <<nsubsamples, _y, _x, _u, _v, occlusion, linebuf, rng, ao_calls, candidates>>
aoVars == <<ao, ao_result>>
ppmVars == <<revision, file, written>>

vars == <<sizeVars, pixels, mtVars, gpc, rayVars, lineVars, aoVars, ppmVars>>

\* What each specification leaves alone.
notMT == <<gpc, rayVars, lineVars, aoVars, ppmVars>>
notRay == <<sizeVars, pixels, mtVars, lineVars, aoVars, ppmVars>>
notAO == <<sizeVars, pixels, mtVars, lineVars, ppmVars>>
notLine == <<pixels, mtVars, ppmVars>>
notPPM == <<mtVars, rayVars, lineVars, aoVars>>

(***************************************************************************)
(* Bounds of the model.                                                    *)
(***************************************************************************)
MaxTask == 3
MaxHeight == 3
MaxWidth == 1

(***************************************************************************)
(* Floats. A float is the integer nearest to UNIT times its value; every    *)
(* operation rounds its exact result to the nearest such integer.          *)
(***************************************************************************)
UNIT == 256

Abs(a) == IF a < 0 THEN -a ELSE a

\* n / d rounded to the nearest integer (d # 0).
RoundDiv(n, d) ==
    LET an == Abs(n)
        ad == Abs(d)
        q == an \div ad
        m == IF 2 * (an % ad) >= ad THEN q + 1 ELSE q
    IN  IF (n < 0) = (d < 0) THEN m ELSE -m

Float(n) == n * UNIT                       \* `n as float`
FMul(a, b) == RoundDiv(a * b, UNIT)        \* a * b
FDiv(a, b) == RoundDiv(a * UNIT, b)        \* a / b
Ratio(n, d) == RoundDiv(n * UNIT, d)       \* the literal n/d

RECURSIVE ISqrtSearch(_, _, _)
\* The largest s in lo..hi with s*s <= n.
ISqrtSearch(n, lo, hi) ==
    IF lo >= hi THEN lo
    ELSE LET mid == (lo + hi + 1) \div 2
         IN  IF mid * mid <= n THEN ISqrtSearch(n, mid, hi)
                               ELSE ISqrtSearch(n, lo, mid - 1)

\* sqrt(a), a >= 0
FSqrt(a) ==
    LET n == a * UNIT
        s == ISqrtSearch(n, 0, IF n < 46340 THEN n ELSE 46340)
    IN  IF n - s * s > s THEN s + 1 ELSE s

\* The literal 1.0e-9 is 1/EPS_RECIPROCAL: `a > 1.0e-9` and `a < 1.0e-9`
\* for a float a, decided without rounding the literal.
EPS_RECIPROCAL == 1000000000
GreaterThanEps(a) == a > UNIT \div EPS_RECIPROCAL
LessThanEps(a) == a < (UNIT + EPS_RECIPROCAL - 1) \div EPS_RECIPROCAL

\* float::consts::pi
PI == RoundDiv(355 * UNIT, 113)

\* sin on [0, 2*pi), by Bhaskara's rational approximation on [0, pi] and
\* sin(a + pi) = -sin(a).
FSinHalf(a) ==
    LET p == a * (PI - a)
    IN  RoundDiv(16 * p * UNIT, 5 * PI * PI - 4 * p)
FSin(a) ==
    LET r == a % (2 * PI)
    IN  IF r <= PI THEN FSinHalf(r) ELSE -FSinHalf(r - PI)
FCos(a) == FSin(a + PI \div 2)

(***************************************************************************)
(* mod vector                                                              *)
(***************************************************************************)
Vector(x, y, z) == [x |-> x, y |-> y, z |-> z]

add(a, b) == Vector(a.x + b.x, a.y + b.y, a.z + b.z)
sub(a, b) == Vector(a.x - b.x, a.y - b.y, a.z - b.z)
dot(v0, v1) == FMul(v0.x, v1.x) + FMul(v0.y, v1.y) + FMul(v0.z, v1.z)
cross(v0, v1) == Vector(FMul(v0.y, v1.z) - FMul(v0.z, v1.y),
                        FMul(v0.z, v1.x) - FMul(v0.x, v1.z),
                        FMul(v0.x, v1.y) - FMul(v0.y, v1.x))
scale(v, s) == Vector(FMul(v.x, s), FMul(v.y, s), FMul(v.z, s))

\* Vector::normalized: divides by the length unless the length is within
\* 1.0e-9 of zero.
normalized(v) ==
    LET length == FSqrt(dot(v, v))
    IN  IF GreaterThanEps(-length) \/ GreaterThanEps(length)
        THEN Vector(FDiv(v.x, length), FDiv(v.y, length), FDiv(v.z, length))
        ELSE v

new_normal(x, y, z) == normalized(Vector(x, y, z))

(***************************************************************************)
(* Ray, IntersectInfo, Object                                              *)
(***************************************************************************)
Ray(origin, direction) == [origin |-> origin, direction |-> direction]

\* A distance is a float, or one of the literals 1.0e+9 and 1.0e+17, which
\* lie beyond the floats the model represents: Pow10(e) is 10^e.
Finite(t) == [pow10 |-> 0, fix |-> t]
Pow10(e) == [pow10 |-> e, fix |-> 0]

RECURSIVE Digits(_)
\* The number of decimal digits of n >= 0 (0 has none).
Digits(n) == IF n = 0 THEN 0 ELSE 1 + Digits(n \div 10)

\* a < b and a <= b for a float a >= 0 and a distance b. The integer part of
\* a is below 10^e exactly when it has at most e digits.
DistLess(a, b) ==
    IF b.pow10 = 0 THEN a < b.fix
    ELSE Digits(a \div UNIT) <= b.pow10
DistLessEq(a, b) ==
    IF b.pow10 = 0 THEN a <= b.fix
    ELSE DistLess(a, b) \/ (a % UNIT = 0 /\ a \div UNIT = 10 ^ b.pow10)

IntersectInfo(distance, position, normal) ==
    [distance |-> distance, position |-> position, normal |-> normal]

Sphere(position, radius) == [kind |-> "Sphere", position |-> position, radius |-> radius]
Plane(position, normal) == [kind |-> "Plane", position |-> position, normal |-> normal]

\* The hit distance an object computes for a ray, before it is compared
\* with the record: `some` is false when the code returns before computing
\* one (D <= 0 for a sphere, a ray parallel to a plane).
Candidate(o, r) ==
    IF o.kind = "Sphere"
    THEN LET rs == sub(r.origin, o.position)
             B == dot(rs, r.direction)
             C == dot(rs, rs) - FMul(o.radius, o.radius)
             D == FMul(B, B) - C
         IN  IF D > 0 THEN [some |-> TRUE, t |-> -B - FSqrt(D)]
                      ELSE [some |-> FALSE, t |-> 0]
    ELSE LET d == -dot(o.position, o.normal)
             v == dot(r.direction, o.normal)
         IN  IF LessThanEps(Abs(v)) THEN [some |-> FALSE, t |-> 0]
             ELSE [some |-> TRUE, t |-> -FDiv(dot(r.origin, o.normal) + d, v)]

\* `(t > 0.0) && (t < best.distance)`
AcceptsMutant(t, distance) == t > 0 /\ DistLessEq(t, distance)
Accepts(t, distance) == t > 0 /\ DistLess(t, distance)

\* The record a hit at distance t leaves.
Commit(o, r, t) ==
    LET position == add(r.origin, scale(r.direction, t))
    IN  IntersectInfo(Finite(t), position,
                      IF o.kind = "Sphere" THEN normalized(sub(position, o.position))
                                           ELSE o.normal)

\* Object::intersect: what it returns and what it leaves in the record.
intersect(o, r, best) ==
    LET c == Candidate(o, r)
    IN  IF c.some /\ Accepts(c.t, best.distance)
        THEN [ret |-> TRUE, isect |-> Commit(o, r, c.t)]
        ELSE [ret |-> FALSE, isect |-> best]

(***************************************************************************)
(* The scene of main, and the objects, rays and records the sequential     *)
(* specifications draw their inputs from.                                  *)
(***************************************************************************)
\* The vector (a/10, b/10, c/10).
Tenths(a, b, c) == Vector(Ratio(a, 10), Ratio(b, 10), Ratio(c, 10))

MainScene ==
    << Sphere(Tenths(-20, 0, -35), Ratio(5, 10)),
       Sphere(Tenths(-5, 0, -30), Ratio(5, 10)),
       Sphere(Tenths(10, 0, -22), Ratio(5, 10)),
       Plane(Tenths(0, -5, 0), Tenths(0, 10, 0)) >>

\* A plane facing the camera whose normal is not a unit vector; the ray from
\* (-0.5, 0, 0) along -z meets it and the second sphere at the same distance.
FacingPlane == Plane(Tenths(0, 0, -25), Tenths(0, 0, 20))

ObjectSet == {MainScene[n] : n \in 1..Len(MainScene)} \cup {FacingPlane}

\* The record a traversal starts from: `distance` is the sentinel.
NewIntersectInfo(sentinel) ==
    IntersectInfo(sentinel, Tenths(0, 0, 0), Tenths(0, 10, 0))

\* The primary ray render_line casts for sub-sample (uu, vv) of pixel
\* (xx, yy) of a ww x hh image.
PrimaryRay(ww, hh, ns, xx, yy, uu, vv) ==
    LET sample == Float(ns)
        px == FDiv(Float(xx) + FDiv(Float(uu), sample) - FDiv(Float(ww), Float(2)),
                   FDiv(Float(ww), Float(2)))
        py == -FDiv(Float(yy) + FDiv(Float(vv), sample) - FDiv(Float(hh), Float(2)),
                    FDiv(Float(hh), Float(2)))
    IN  Ray(Tenths(0, 0, 0), new_normal(px, py, Float(-1)))

NAO_SAMPLES == 8
NSUBSAMPLES == 2

MaxImage == 2

PrimaryRays ==
    {PrimaryRay(ww, hh, NSUBSAMPLES, xx, yy, uu, vv) :
        ww \in {MaxImage}, hh \in {MaxImage}, xx \in 0..(MaxImage - 1),
        yy \in 0..(MaxImage - 1),
        uu \in 0..(NSUBSAMPLES - 1), vv \in 0..(NSUBSAMPLES - 1)}

\* Rays along the axes, one of them with no direction at all and one whose
\* direction is not a unit vector.
ProbeRays ==
    {Ray(o, d) :
        o \in {Tenths(0, 0, 0), Tenths(-5, 0, 0), Tenths(-5, 0, -10), Tenths(0, -5, -30)},
        d \in {Tenths(0, 0, -10), Tenths(0, 0, 10), Tenths(0, 10, 0), Tenths(0, -10, 0),
               Tenths(10, 0, 0), Tenths(-10, 0, 0), Tenths(0, 0, 0), Tenths(0, 0, -20)}}

RaySet == PrimaryRays \cup ProbeRays

\* The records an intersect call may be handed for a ray: a fresh one with
\* either sentinel, or one an object of ObjectSet has already written.
RecordSet(r) ==
    {NewIntersectInfo(Pow10(17)), NewIntersectInfo(Pow10(9))}
    \cup {intersect(o, r, NewIntersectInfo(Pow10(17))).isect : o \in ObjectSet}

RayIdle ==
    /\ objects = <<>>
    /\ obj = 0
    /\ ray = 0
    /\ isect = 0
    /\ before = 0
    /\ ret = FALSE
    /\ visited = 0
    /\ hit = FALSE
    /\ committed = 0

LineIdle ==
    /\ nsubsamples = 0
    /\ _y = 0 /\ _x = 0 /\ _u = 0 /\ _v = 0
    /\ occlusion = 0
    /\ linebuf = <<>>
    /\ rng = 0
    /\ ao_calls = 0
    /\ candidates = 0

AOIdle ==
    /\ ao = 0
    /\ ao_result = 0

PPMIdle ==
    /\ revision = ""
    /\ file = <<>>
    /\ written = 0

(***************************************************************************)
(* The scene traversal of render_line, ortho_basis and ambient_occlusion.  *)
(***************************************************************************)
\* One iteration of `for objects.each |o| { let h = o.intersect(&ray, isect);
\* hit = (hit || h); }`. `by` records the index of the object that last
\* wrote the record (0: none), `n` the index of the object just visited.
TraverseStep(st, o, r) ==
    LET res == intersect(o, r, st.isect)
    IN  [hit |-> st.hit \/ res.ret,
         isect |-> res.isect,
         n |-> st.n + 1,
         by |-> IF res.ret THEN st.n + 1 ELSE st.by]

RECURSIVE TraverseFrom(_, _, _)
TraverseFrom(st, objs, r) ==
    IF st.n >= Len(objs) THEN st
    ELSE TraverseFrom(TraverseStep(st, objs[st.n + 1], r), objs, r)

\* The whole primary traversal of a scene, from a fresh record.
Traverse(objs, r) ==
    TraverseFrom([hit |-> FALSE, isect |-> NewIntersectInfo(Pow10(17)), n |-> 0, by |-> 0],
                 objs, r)

\* a < n/d for a float a and the literal n/d, decided without rounding the
\* literal.
LessThanRatio(a, n, d) == a * d < n * UNIT
GreaterThanRatio(a, n, d) == a * d > n * UNIT

ortho_basis(n) ==
    LET seed ==
            IF LessThanRatio(n.x, 6, 10) /\ GreaterThanRatio(n.x, -6, 10)
            THEN Vector(Float(1), 0, 0)
            ELSE IF LessThanRatio(n.y, 6, 10) /\ GreaterThanRatio(n.y, -6, 10)
            THEN Vector(0, Float(1), 0)
            ELSE IF LessThanRatio(n.z, 6, 10) /\ GreaterThanRatio(n.z, -6, 10)
            THEN Vector(0, 0, Float(1))
            ELSE Vector(Float(1), 0, 0)
        basis0 == normalized(cross(seed, n))
        basis1 == normalized(cross(n, basis0))
    IN  <<basis0, basis1, n>>

\* The random number generator: a state in 0..RngStates-1, stepped by a
\* linear congruence; gen_float is the state as a fraction in [0, 1).
RngStates == 16
gen_float(s) == [value |-> (s * UNIT) \div RngStates, rng |-> (5 * s + 3) % RngStates]

\* The inner `for objects.each |o| { if o.intersect(&ray, occ_isect) {
\* occlusion += 1.0; break; } }`: how many times occlusion is incremented,
\* and the record the loop leaves.
RECURSIVE OccludersNoBreak(_, _, _)
OccludersNoBreak(objs, r, best) ==
    IF objs = <<>> THEN [count |-> 0, isect |-> best]
    ELSE LET res == intersect(Head(objs), r, best)
             rest == OccludersNoBreak(Tail(objs), r, res.isect)
         IN  [count |-> (IF res.ret THEN 1 ELSE 0) + rest.count, isect |-> rest.isect]
RECURSIVE Occluders(_, _, _)
Occluders(objs, r, best) ==
    IF objs = <<>> THEN [count |-> 0, isect |-> best]
    ELSE LET res == intersect(Head(objs), r, best)
         IN  IF res.ret THEN [count |-> 1, isect |-> res.isect]
             ELSE Occluders(Tail(objs), r, res.isect)

\* The state of ambient_occlusion's loops before the first sample.
AOStart(s) ==
    [n |-> 0, occlusion |-> 0, occ_isect |-> NewIntersectInfo(Pow10(9)), rng |-> s,
     ray |-> Ray(Tenths(0, 0, 0), Tenths(0, 0, 0))]

\* `let mut ray_origin = isect.position + vector::scale(&isect.normal, eps);`
AOOrigin(hitinfo) == add(hitinfo.position, scale(hitinfo.normal, Ratio(1, 10000)))

\* `occ_isect.distance = 1.0e+9;`
ResetDistanceMutant(best) == best
ResetDistance(best) == [best EXCEPT !.distance = Pow10(9)]

\* One sample of ambient_occlusion: a direction in the hemisphere around
\* basis[3], and the scan of the scene along it.
AOSample(st, ray_origin, basis, objs) ==
    LET tau == FMul(Float(2), PI)
        g1 == gen_float(st.rng)
        g2 == gen_float(g1.rng)
        theta == FSqrt(g1.value)
        phi == FMul(tau, g2.value)
        x == FMul(FCos(phi), theta)
        y == FMul(FSin(phi), theta)
        z == FSqrt(Float(1) - FMul(theta, theta))
        direction ==
            Vector(FMul(x, basis[1].x) + FMul(y, basis[2].x) + FMul(z, basis[3].x),
                   FMul(x, basis[1].y) + FMul(y, basis[2].y) + FMul(z, basis[3].y),
                   FMul(x, basis[1].z) + FMul(y, basis[2].z) + FMul(z, basis[3].z))
        found == Occluders(objs, Ray(ray_origin, direction),
                           ResetDistance(st.occ_isect))
    IN  [n |-> st.n + 1,
         occlusion |-> st.occlusion + found.count * Float(1),
         occ_isect |-> found.isect,
         rng |-> g2.rng,
         ray |-> Ray(ray_origin, direction)]

\* `return (theta * phi - occlusion) / (theta * phi);`
AOValue(occ) ==
    LET theta == Float(NAO_SAMPLES)
        phi == Float(NAO_SAMPLES)
    IN  FDiv(FMul(theta, phi) - occ, FMul(theta, phi))

(***************************************************************************)
(* Pixels.                                                                 *)
(***************************************************************************)
Pixel(r, g, b) == [r |-> r, g |-> g, b |-> b]

\* The images render_line may produce row by row, for a given size: one whose
\* rows all differ (row y is gray of byte y + 1) and one whose rows are all
\* black.
RowImages(w, h) ==
    {[y \in 0..(h - 1) |-> [x \in 1..w |-> Pixel(y + 1, y + 1, y + 1)]],
     [y \in 0..(h - 1) |-> [x \in 1..w |-> Pixel(0, 0, 0)]]}

RECURSIVE concat(_)
\* vec::concat: the rows of `lines`, one after the other.
concat(lines) ==
    IF lines = <<>> THEN <<>>
    ELSE Head(lines) \o concat(Tail(lines))

\* render_line(width, height, y, ...) with its result fixed per row.
render_line_fixed(y) == IF y \in DOMAIN rows THEN rows[y] ELSE <<>>

RECURSIVE singletask_lines(_, _)
\* The loop of render_singletask: rows y, y+1, ..., h-1 pushed in that order.
singletask_lines(y, h) ==
    IF y >= h THEN <<>>
    ELSE <<render_line_fixed(y)>> \o singletask_lines(y + 1, h)

render_singletask == concat(singletask_lines(0, height))

(***************************************************************************)
(* The decisions of render_multitask and render_multitask_run.             *)
(***************************************************************************)
\* `while rendered_line < height`
WaitMutant(rendered, h) == rendered + 1 < h
WaitForResults(rendered, h) == rendered < h

\* What the dispatcher sends a worker after it has counted that worker's result.
NextMessageMutant(rendered, assigned, h) == IF rendered < h THEN rendered ELSE h
NextMessage(rendered, assigned, h) == IF rendered < h THEN assigned ELSE h

\* `assigned_line += 1;` left out.
NextAssignedMutant(assigned) == assigned
\* `assigned_line += 1;`
NextAssigned(assigned) == assigned + 1

\* `if line >= rt.height { break; }`
WorkerStopsMutant(line, h) == line > h
WorkerStops(line, h) == line >= h

\* `result_store[line].pixels = pixels` (rows are 0-based, sequences 1-based)
StoreResult(store, line, px) == [store EXCEPT ![line + 1] = px]

\* `for result_store.each() |t| { pixels.push_all(t.pixels); }`
MergeResultMutant(store) == concat([k \in 1..Len(store) |-> store[Len(store) + 1 - k]])
MergeResult(store) == concat(store)

Workers == 0..(num_task - 1)

Send(chan, w, msg) == [chan EXCEPT ![w] = Append(@, msg)]

(***************************************************************************)
(* Init: render_multitask has been called; nothing is spawned yet.         *)
(***************************************************************************)
InitMT ==
    /\ width \in 0..MaxWidth
    /\ height \in 0..MaxHeight
    /\ num_task \in 0..MaxTask
    /\ rows \in RowImages(width, height)
    /\ pc = "spawn"
    /\ i = 0
    /\ senders = [w \in Workers |-> <<>>]
    /\ receivers = [w \in Workers |-> <<>>]
    /\ result_store = <<>>
    /\ rendered_line = 0
    /\ assigned_line = 0
    /\ pixels = <<>>
    /\ wpc = [w \in Workers |-> "unspawned"]
    /\ wline = [w \in Workers |-> 0]
    /\ sent = [w \in Workers |-> <<>>]
    /\ writes = [y \in 0..(height - 1) |-> 0]
    /\ received = <<>>
    /\ failed = FALSE
    /\ gpc = "idle"
    /\ RayIdle /\ LineIdle /\ AOIdle /\ PPMIdle

\* render_multitask is not running.
TaskIdle ==
    /\ pixels = <<>>
    /\ num_task = 0
    /\ rows = <<>>
    /\ pc = "idle"
    /\ i = 0
    /\ senders = <<>>
    /\ receivers = <<>>
    /\ result_store = <<>>
    /\ rendered_line = 0
    /\ assigned_line = 0
    /\ wpc = <<>>
    /\ wline = <<>>
    /\ sent = <<>>
    /\ writes = <<>>
    /\ received = <<>>
    /\ failed = FALSE

MTIdle ==
    /\ width = 0
    /\ height = 0
    /\ TaskIdle

(***************************************************************************)
(* The dispatcher.                                                         *)
(***************************************************************************)
\* One iteration of the spawn loop: the channels of worker i are created
\* and the worker is started.
Spawn ==
    /\ pc = "spawn" /\ i < num_task
    /\ wpc' = [wpc EXCEPT ![i] = "recv"]
    /\ i' = i + 1
    /\ UNCHANGED <<width, height, num_task, rows, pc, senders, receivers, result_store,
                   rendered_line, assigned_line, pixels, wline, sent, writes, received, failed>>
    /\ UNCHANGED notMT

\* The spawn loop ends; result_store gets its `height` empty slots and the
\* two counters start at 0.
SpawnDone ==
    /\ pc = "spawn" /\ i = num_task
    /\ result_store' = [k \in 1..height |-> <<>>]
    /\ rendered_line' = 0
    /\ assigned_line' = 0
    /\ pc' = "start"
    /\ i' = 0
    /\ UNCHANGED <<width, height, num_task, rows, senders, receivers, pixels, wpc,
                   wline, sent, writes, received, failed>>
    /\ UNCHANGED notMT

\* `senders[i].send(assigned_line); assigned_line += 1;` for each worker.
Start ==
    /\ pc = "start" /\ i < num_task
    /\ senders' = Send(senders, i, assigned_line)
    /\ sent' = Send(sent, i, assigned_line)
    /\ assigned_line' = NextAssigned(assigned_line)
    /\ i' = i + 1
    /\ UNCHANGED <<width, height, num_task, rows, pc, receivers, result_store,
                   rendered_line, pixels, wpc, wline, writes, received, failed>>
    /\ UNCHANGED notMT

StartDone ==
    /\ pc = "start" /\ i = num_task
    /\ pc' = "while"
    /\ UNCHANGED <<width, height, num_task, rows, i, senders, receivers, result_store,
                   rendered_line, assigned_line, pixels, wpc, wline, sent, writes, received, failed>>
    /\ UNCHANGED notMT

\* The test of the wait loop: another sweep over the workers, or the merge.
While ==
    /\ pc = "while"
    /\ IF WaitForResults(rendered_line, height)
       THEN pc' = "sweep" /\ i' = 0
       ELSE pc' = "merge" /\ i' = i
    /\ UNCHANGED <<width, height, num_task, rows, senders, receivers, result_store,
                   rendered_line, assigned_line, pixels, wpc, wline, sent, writes, received, failed>>
    /\ UNCHANGED notMT

\* try_recv on receivers[i] returns Some((line, pixels)).  The sweep is
\* modelled as a poll (`None => /* rendering now */`); a try_recv that waits
\* for the worker's result or its exit is the same run with the dispatcher
\* not stepping while receivers[i] is empty and the worker still runs.
SweepSome ==
    /\ pc = "sweep" /\ i < num_task
    /\ receivers[i] # <<>>
    /\ LET line == Head(receivers[i])[1]
           px == Head(receivers[i])[2]
       IN  /\ receivers' = [receivers EXCEPT ![i] = Tail(@)]
           /\ received' = Append(received, line)
           /\ IF line >= height
              THEN \* index out of bounds: the task fails
                   /\ failed' = TRUE
                   /\ pc' = "failed"
                   /\ UNCHANGED <<i, senders, result_store, rendered_line,
                                  assigned_line, sent, writes>>
              ELSE /\ result_store' = StoreResult(result_store, line, px)
                   /\ writes' = [writes EXCEPT ![line] = @ + 1]
                   /\ rendered_line' = rendered_line + 1
                   /\ senders' = Send(senders, i,
                                      NextMessage(rendered_line + 1, assigned_line, height))
                   /\ sent' = Send(sent, i,
                                   NextMessage(rendered_line + 1, assigned_line, height))
                   /\ assigned_line' = IF rendered_line + 1 < height
                                       THEN NextAssigned(assigned_line)
                                       ELSE assigned_line
                   /\ i' = i + 1
                   /\ UNCHANGED <<pc, failed>>
    /\ UNCHANGED <<width, height, num_task, rows, pixels, wpc, wline>>
    /\ UNCHANGED notMT

\* try_recv on receivers[i] returns None.
SweepNone ==
    /\ pc = "sweep" /\ i < num_task
    /\ receivers[i] = <<>>
    /\ i' = i + 1
    /\ UNCHANGED <<width, height, num_task, rows, pc, senders, receivers, result_store,
                   rendered_line, assigned_line, pixels, wpc, wline, sent, writes, received, failed>>
    /\ UNCHANGED notMT

\* The sweep over the workers ends: back to the test of the wait loop.
SweepDone ==
    /\ pc = "sweep" /\ i = num_task
    /\ pc' = "while"
    /\ UNCHANGED <<width, height, num_task, rows, i, senders, receivers, result_store,
                   rendered_line, assigned_line, pixels, wpc, wline, sent, writes, received, failed>>
    /\ UNCHANGED notMT

\* The merge loop and the return.
Merge ==
    /\ pc = "merge"
    /\ pixels' = MergeResult(result_store)
    /\ pc' = "done"
    /\ UNCHANGED <<width, height, num_task, rows, i, senders, receivers, result_store,
                   rendered_line, assigned_line, wpc, wline, sent, writes, received, failed>>
    /\ UNCHANGED notMT

Dispatcher ==
    \/ Spawn \/ SpawnDone \/ Start \/ StartDone \/ While
    \/ SweepSome \/ SweepNone \/ SweepDone \/ Merge

(***************************************************************************)
(* The workers (render_multitask_run).                                     *)
(***************************************************************************)
\* `let line = rt.receiver.recv();` and the test that follows it. recv
\* blocks until a message is there.
WorkerRecv(w) ==
    /\ wpc[w] = "recv"
    /\ senders[w] # <<>>
    /\ senders' = [senders EXCEPT ![w] = Tail(@)]
    /\ IF WorkerStops(Head(senders[w]), height)
       THEN wpc' = [wpc EXCEPT ![w] = "finished"] /\ wline' = wline
       ELSE /\ wpc' = [wpc EXCEPT ![w] = "render"]
            /\ wline' = [wline EXCEPT ![w] = Head(senders[w])]
    /\ UNCHANGED <<width, height, num_task, rows, pc, i, receivers, result_store,
                   rendered_line, assigned_line, pixels, sent, writes, received, failed>>
    /\ UNCHANGED notMT

\* `let pixels = render_line(...); rt.sender.send((line, pixels));`
WorkerSend(w) ==
    /\ wpc[w] = "render"
    /\ receivers' = Send(receivers, w, <<wline[w], render_line_fixed(wline[w])>>)
    /\ wpc' = [wpc EXCEPT ![w] = "recv"]
    /\ UNCHANGED <<width, height, num_task, rows, pc, i, senders, result_store,
                   rendered_line, assigned_line, pixels, wline, sent, writes, received, failed>>
    /\ UNCHANGED notMT

Worker(w) == WorkerRecv(w) \/ WorkerSend(w)

NextMT ==
    \/ Spawn \/ SpawnDone \/ Start \/ StartDone \/ While
    \/ SweepSome \/ SweepNone \/ SweepDone \/ Merge
    \/ \E w \in Workers : WorkerRecv(w)
    \/ \E w \in Workers : WorkerSend(w)

Spec == InitMT /\ [][NextMT]_vars

\* The tasks are scheduled fairly: the dispatcher and every worker keep
\* running while they have a step to take.
FairSpec ==
    /\ Spec
    /\ WF_vars(Dispatcher)
    /\ \A w \in 0..(MaxTask - 1) : WF_vars(w \in Workers /\ Worker(w))

(***************************************************************************)
(* Claims about render_multitask.                                          *)
(***************************************************************************)
AllFinished == \A w \in Workers : wpc[w] = "finished"

\* C1: for every num_task >= 1, every height and width and every
\* interleaving of the workers' completions, the pixel sequence
\* render_multitask returns has length width*height, is rows 0, 1, ...,
\* height-1 one after the other, and equals what render_singletask returns.
C1_MultitaskEqualsSingletask ==
    (pc = "done" /\ num_task >= 1) =>
        /\ Len(pixels) = width * height
        /\ \A y \in 0..(height - 1) : \A x \in 1..width :
               pixels[y * width + x] = rows[y][x]
        /\ pixels = render_singletask

\* C1's case: the render returned after two rows with different pixels
\* were received in the opposite of their index order.
C1_Witness ==
    /\ pc = "done" /\ num_task >= 2 /\ width >= 1
    /\ \E a, b \in 1..Len(received) :
           /\ a < b /\ received[a] > received[b]
           /\ rows[received[a]] # rows[received[b]]

\* C5: when the merge loop begins, rendered_line = height, exactly height
\* results have been received, and every slot of result_store holds the
\* rendered pixels of its own row (none is still empty).
C5_MergeAfterAllRows ==
    pc = "merge" =>
        /\ rendered_line = height
        /\ Len(received) = height
        /\ Len(result_store) = height
        /\ \A y \in 0..(height - 1) :
               writes[y] >= 1 /\ result_store[y + 1] = rows[y]

\* C5's case: the merge is about to begin after several rows came back
\* from several workers.
C5_Witness ==
    /\ pc = "merge" /\ height >= 2 /\ num_task >= 2 /\ width >= 1
    /\ \E y \in 0..(height - 1) : result_store[y + 1] # <<>>

\* The row indices below height handed out so far, to any worker.
AssignedRows == {n \in 0..(height - 1) : \E w \in Workers : \E k \in 1..Len(sent[w]) :
                                           sent[w][k] = n}

\* The lowest row index not yet assigned to any worker (height when every
\* row has been assigned).
LowestUnassigned ==
    CHOOSE n \in 0..height :
        /\ n \notin AssignedRows
        /\ \A m \in 0..(n - 1) : m \in AssignedRows

\* C6: each time the dispatcher receives a row from worker w it sends
\* exactly one message, to w, which is the lowest row index not yet
\* assigned when that index is below height and a value >= height
\* otherwise; a worker that receives a value >= height leaves its loop,
\* and no worker renders a row index >= height.
C6_OneMessagePerResult ==
    /\ [][\A w \in Workers :
            Len(receivers'[w]) < Len(receivers[w]) =>
                /\ Len(sent'[w]) = Len(sent[w]) + 1
                /\ \A v \in Workers \ {w} : sent'[v] = sent[v]
                /\ IF LowestUnassigned < height
                   THEN sent'[w][Len(sent'[w])] = LowestUnassigned
                   ELSE sent'[w][Len(sent'[w])] >= height]_vars
    /\ [][\A w \in Workers :
            (Len(senders'[w]) < Len(senders[w]) /\ Head(senders[w]) >= height) =>
                wpc'[w] = "finished"]_vars
    /\ [](\A w \in Workers : wpc[w] = "render" => wline[w] < height)

\* C6's case: a worker that returned a row was sent a further row, and
\* another was sent the value that ends its loop.
C6_Witness ==
    /\ \E w \in Workers :
           /\ Len(sent[w]) >= 2
           /\ sent[w][2] < height
           /\ wpc[w] = "render" /\ wline[w] = sent[w][2]
    /\ \E w \in Workers :
           /\ Len(sent[w]) >= 2
           /\ sent[w][Len(sent[w])] >= height
           /\ wpc[w] = "finished"

\* C10: for every num_task >= 1 and every height >= 0, under fair
\* scheduling, render_multitask eventually returns and every worker has
\* received a value >= height and left its loop.
C10_Terminates ==
    <>(\/ num_task = 0
       \/ /\ pc = "done"
          /\ AllFinished
          /\ \A w \in Workers : sent[w] # <<>> /\ sent[w][Len(sent[w])] >= height)

\* C10's case: the render has returned with more workers than rows, every
\* worker stopped.
C10_Witness ==
    /\ pc = "done" /\ num_task > height /\ height >= 1
    /\ AllFinished

\* Where row index n has been sent: the (worker, position) pairs.
SentTo(n) ==
    {p \in UNION {{<<w, k>> : k \in 1..Len(sent[w])} : w \in Workers} :
        sent[p[1]][p[2]] = n}

\* The rows below height sent to worker w so far.
RowsOf(w) == {sent[w][k] : k \in {j \in 1..Len(sent[w]) : sent[w][j] < height}}

\* The rows assigned to worker w whose result the dispatcher has not
\* received yet, counted.
Outstanding(w) ==
    Cardinality({k \in 1..Len(sent[w]) : sent[w][k] < height})
    - Cardinality({k \in 1..Len(received) : received[k] \in RowsOf(w)})

\* C11: every row index in 0..height-1 is sent to a worker exactly once
\* over the whole run (at no time twice or to two workers, and none is
\* missing when the wait loop has ended); each row sent is the successor of
\* the last row sent before it; and at every moment each worker has at most
\* one assigned row whose result has not been received.
C11_RowsAssignedOnce ==
    /\ [](pc # "idle" => \A n \in 0..(height - 1) : Cardinality(SentTo(n)) <= 1)
    /\ [](pc \in {"merge", "done"} =>
            \A n \in 0..(height - 1) : Cardinality(SentTo(n)) = 1)
    /\ [][\A w \in Workers :
            (Len(sent'[w]) > Len(sent[w]) /\ sent'[w][Len(sent'[w])] < height) =>
                /\ \A n \in AssignedRows : n < sent'[w][Len(sent'[w])]
                /\ sent'[w][Len(sent'[w])] = Cardinality(AssignedRows)]_vars
    /\ [](pc # "idle" => \A w \in Workers : Outstanding(w) \in {0, 1})

\* C11's case: the render has returned after one worker was given several
\* rows in turn and another worker at least one.
C11_Witness ==
    /\ pc = "done" /\ height >= 3
    /\ \E w, v \in Workers :
           /\ w # v
           /\ Cardinality(RowsOf(w)) >= 2
           /\ Cardinality(RowsOf(v)) >= 1


\* C12: every result the dispatcher stores has line < height (the indexing
\* never fails), no slot is ever written twice and each has been written
\* once when the wait loop ends, and rendered_line is the number of slots
\* written and never exceeds height, also in the sweeps that go on after it
\* has reached height.
C12_StoreInBounds ==
    /\ [](pc # "idle" =>
            /\ ~failed /\ pc # "failed"
            /\ \A k \in 1..Len(received) : received[k] < height
            /\ \A y \in 0..(height - 1) : writes[y] <= 1
            /\ rendered_line = Cardinality({y \in 0..(height - 1) : writes[y] = 1})
            /\ rendered_line = Len(received)
            /\ rendered_line <= height)
    /\ [](pc \in {"merge", "done"} => \A y \in 0..(height - 1) : writes[y] = 1)
    /\ [][\A y \in 0..(height - 1) :
            (pc # "idle" /\ writes[y] = 1) =>
                (writes'[y] = 1 /\ result_store'[y + 1] = result_store[y + 1])]_vars

\* C12's case: rendered_line has reached height in the middle of a sweep,
\* with workers still to be visited in that sweep.
C12_Witness ==
    /\ pc = "sweep" /\ height >= 2
    /\ rendered_line = height
    /\ i < num_task
    /\ \A y \in 0..(height - 1) : writes[y] = 1


\* The positions of sent[w] that hold a value >= height.
StopsSent(w) == {k \in 1..Len(sent[w]) : sent[w][k] >= height}

RECURSIVE TotalSent(_)
\* The number of messages the dispatcher has sent to workers 0..n-1.
TotalSent(n) == IF n = 0 THEN 0 ELSE TotalSent(n - 1) + Len(sent[n - 1])

\* C13: the dispatcher never sends to a worker it has already sent a value
\* >= height, so a worker is sent at most one such value and it is the last
\* message on its channel; when render_multitask returns every worker has
\* been sent exactly one, and height + num_task messages have been sent in
\* all; a worker that has left its loop has taken every message sent to it.
C13_OneStopPerWorker ==
    /\ [][\A w \in Workers :
            Len(sent'[w]) > Len(sent[w]) => StopsSent(w) = {}]_vars
    /\ [](pc # "idle" => \A w \in Workers :
            /\ Cardinality(StopsSent(w)) <= 1
            /\ StopsSent(w) \subseteq {Len(sent[w])}
            /\ (wpc[w] = "finished" => (StopsSent(w) # {} /\ senders[w] = <<>>)))
    /\ [](pc = "done" =>
            /\ \A w \in Workers : StopsSent(w) = {Len(sent[w])} /\ sent[w] # <<>>
            /\ TotalSent(num_task) = height + num_task)

\* C13's case: the render has returned, one worker was stopped by the value
\* sent in place of a row while rows were still being rendered, another by
\* the value sent after the last result, and all have left their loops.
C13_Witness ==
    /\ pc = "done" /\ height >= 2 /\ num_task >= 2
    /\ AllFinished
    /\ \E w, v \in Workers :
           /\ sent[w][Len(sent[w])] > height
           /\ sent[v][Len(sent[v])] = height
           /\ Len(sent[w]) >= 2 /\ Len(sent[v]) >= 2


\* main: `if num_task == 1 { render_singletask } else { render_multitask }`
Routes(n) == IF n = 1 THEN "render_singletask" ELSE "render_multitask"

\* render_multitask was called with no worker and at least one row.
ZeroTasks == pc # "idle" /\ num_task = 0 /\ height > 0

\* C14: with num_task = 0 and height > 0 (a worker count main passes to
\* render_multitask) no worker is spawned, no message
\* is sent, rendered_line stays 0 and the dispatcher never reaches the merge
\* or the return: it goes round the wait loop for ever, each test of
\* `rendered_line < height` leading to an empty sweep and back to the test.
C14_ZeroTasksNeverCompletes ==
    /\ [](ZeroTasks =>
            /\ Routes(num_task) = "render_multitask"
            /\ Workers = {}
            /\ DOMAIN wpc = {} /\ DOMAIN sent = {}
            /\ rendered_line = 0
            /\ received = <<>>
            /\ pixels = <<>>
            /\ pc \in {"spawn", "start", "while", "sweep"})
    /\ (ZeroTasks /\ pc = "while") ~> (pc = "sweep")
    /\ (ZeroTasks /\ pc = "sweep") ~> (pc = "while")

\* C14's case: the dispatcher is inside the wait loop with no worker to
\* visit and rows still to come.
C14_Witness ==
    /\ ZeroTasks
    /\ pc = "sweep"
    /\ i = num_task
    /\ rendered_line < height


(***************************************************************************)
(* One call of Object::intersect, on any object, ray and record.           *)
(***************************************************************************)
InitIsect ==
    /\ gpc = "call"
    /\ objects = <<>>
    /\ obj \in ObjectSet
    /\ ray \in RaySet
    /\ isect \in RecordSet(ray)
    /\ before = isect
    /\ ret = FALSE
    /\ visited = 0 /\ hit = FALSE /\ committed = 0
    /\ MTIdle /\ LineIdle /\ AOIdle /\ PPMIdle

CallIntersect ==
    /\ gpc = "call"
    /\ ret' = intersect(obj, ray, isect).ret
    /\ isect' = intersect(obj, ray, isect).isect
    /\ before' = isect
    /\ gpc' = "returned"
    /\ UNCHANGED <<objects, obj, ray, visited, hit, committed>>
    /\ UNCHANGED notRay

NextIsect == CallIntersect

SpecIsect == InitIsect /\ [][NextIsect]_vars

\* C2: intersect returns true and overwrites the record's distance,
\* position and normal exactly when the object has a hit distance t with
\* 0 < t < best.distance; otherwise it returns false and the record is as
\* it was.
C2_IntersectContract ==
    gpc = "returned" =>
        LET c == Candidate(obj, ray)
            closer == c.some /\ 0 < c.t /\ DistLess(c.t, before.distance)
            position == add(ray.origin, scale(ray.direction, c.t))
        IN  /\ ret = closer
            /\ ret => /\ isect.distance = Finite(c.t)
                      /\ isect.position = position
                      /\ isect.normal = IF obj.kind = "Sphere"
                                        THEN normalized(sub(position, obj.position))
                                        ELSE obj.normal
            /\ ~ret => isect = before

\* C2's case: a call that replaced a hit another object had recorded.
C2_Witness ==
    /\ gpc = "returned" /\ ret
    /\ before.distance.pow10 = 0
    /\ isect.distance # before.distance /\ isect.normal # before.normal

(***************************************************************************)
(* The primary-ray traversal of render_line: intersect on every object of  *)
(* the scene, in declaration order, against one record.                    *)
(***************************************************************************)
\* Every ordering of the objects of `objs`.
Orderings(objs) ==
    {[n \in 1..Len(objs) |-> objs[f[n]]] : f \in Permutations(1..Len(objs))}

\* A sphere on the camera's axis; the ray along -z meets it and
\* FacingPlane at the same distance.
AxisSphere == Sphere(Tenths(0, 0, -30), Ratio(5, 10))

SceneSet ==
    Orderings(MainScene)
    \cup Orderings(<<AxisSphere, FacingPlane, MainScene[4]>>)
    \cup Orderings(<<MainScene[2], MainScene[2]>>)
    \cup {<<>>}

InitTraverse ==
    /\ gpc = "traverse"
    /\ objects \in SceneSet
    /\ obj = 0
    /\ ray \in RaySet
    /\ isect = NewIntersectInfo(Pow10(17))
    /\ before = isect
    /\ ret = FALSE
    /\ visited = 0
    /\ hit = FALSE
    /\ committed = 0
    /\ MTIdle /\ LineIdle /\ AOIdle /\ PPMIdle

\* One iteration of the loop over the objects.
TraverseIntersect ==
    /\ gpc = "traverse" /\ visited < Len(objects)
    /\ LET st == TraverseStep([hit |-> hit, isect |-> isect, n |-> visited, by |-> committed],
                              objects[visited + 1], ray)
       IN  /\ hit' = st.hit
           /\ isect' = st.isect
           /\ visited' = st.n
           /\ committed' = st.by
           /\ ret' = (st.by = st.n)
    /\ before' = isect
    /\ UNCHANGED <<gpc, objects, obj, ray>>
    /\ UNCHANGED notRay

\* The loop ends.
TraverseDone ==
    /\ gpc = "traverse" /\ visited = Len(objects)
    /\ gpc' = "traversed"
    /\ UNCHANGED rayVars
    /\ UNCHANGED notRay

NextTraverse == TraverseIntersect \/ TraverseDone

SpecTraverse == InitTraverse /\ [][NextTraverse]_vars

\* The objects of the scene that have a positive hit distance below the
\* sentinel s along the ray r, by index.
Positive(objs, r, s) ==
    {n \in 1..Len(objs) :
        LET c == Candidate(objs[n], r)
        IN  c.some /\ 0 < c.t /\ DistLess(c.t, s)}

\* C3: after the traversal the record holds the smallest positive hit
\* distance over all the objects, whatever their order; of objects at that
\* same distance it holds the hit of the one declared first; and hit is
\* true exactly when some object has a positive hit distance below the
\* sentinel.
C3_NearestHit ==
    gpc = "traversed" =>
        LET pos == Positive(objects, ray, Pow10(17))
            T(n) == Candidate(objects[n], ray).t
        IN  /\ hit = (pos # {})
            /\ pos = {} => isect = NewIntersectInfo(Pow10(17)) /\ committed = 0
            /\ pos # {} =>
                  /\ \A n \in pos : isect.distance.fix <= T(n)
                  /\ committed \in pos
                  /\ isect.distance = Finite(T(committed))
                  /\ \A n \in pos : T(n) = T(committed) => committed <= n
                  /\ isect = Commit(objects[committed], ray, T(committed))

\* C3's case: two different objects at the same, smallest distance; the
\* record holds the hit of the one declared first, whose normal differs
\* from the other's.
C3_Witness ==
    /\ gpc = "traversed" /\ hit
    /\ \E a, b \in Positive(objects, ray, Pow10(17)) :
           /\ a < b
           /\ Candidate(objects[a], ray).t = Candidate(objects[b], ray).t
           /\ isect.distance = Finite(Candidate(objects[a], ray).t)
           /\ isect.normal = Commit(objects[a], ray, isect.distance.fix).normal
           /\ isect.normal # Commit(objects[b], ray, isect.distance.fix).normal

(***************************************************************************)
(* ambient_occlusion, one sample at a time, for any hit of a scene.        *)
(***************************************************************************)
Reverse(q) == [n \in 1..Len(q) |-> q[Len(q) + 1 - n]]

AOScenes ==
    {MainScene, Reverse(MainScene), <<FacingPlane, AxisSphere, MainScene[4]>>}

\* The records the primary traversal of a scene leaves when it hits.
HitRecords(objs) ==
    {Traverse(objs, r).isect : r \in {q \in RaySet : Traverse(objs, q).hit}}

AOTotal == NAO_SAMPLES * NAO_SAMPLES

InitAO ==
    /\ gpc = "ao"
    /\ objects \in AOScenes
    /\ isect \in HitRecords(objects)
    /\ \E s \in 0..(RngStates - 1) : ao = AOStart(s)
    /\ ao_result = 0
    /\ obj = 0 /\ ray = 0 /\ before = 0 /\ ret = FALSE
    /\ visited = 0 /\ hit = TRUE /\ committed = 0
    /\ MTIdle /\ LineIdle /\ PPMIdle

\* One iteration of the inner loop over nphi (and of the outer one over
\* ntheta when the inner one wraps).
AOSampleStep ==
    /\ gpc = "ao" /\ ao.n < AOTotal
    /\ ao' = AOSample(ao, AOOrigin(isect), ortho_basis(isect.normal), objects)
    /\ UNCHANGED <<gpc, ao_result, rayVars>>
    /\ UNCHANGED notAO

\* The loops end and the function returns.
AOReturn ==
    /\ gpc = "ao" /\ ao.n = AOTotal
    /\ ao_result' = AOValue(ao.occlusion)
    /\ gpc' = "ao_returned"
    /\ UNCHANGED <<ao, rayVars>>
    /\ UNCHANGED notAO

NextAO == AOSampleStep \/ AOReturn

SpecAO == InitAO /\ [][NextAO]_vars

\* C4: each sample increments the occlusion counter at most once, and does
\* so exactly when some object has a positive hit distance below 1e9 along
\* the sample's ray (the record's distance is reset before each sample and
\* the scan stops at the first object that reports a hit); so the counter
\* stays between 0 and the number of samples taken, and the value returned
\* after NAO_SAMPLES*NAO_SAMPLES samples is (total - count)/total, in [0, 1].
C4_OcclusionBounds ==
    /\ [][(gpc = "ao" /\ ao'.n = ao.n + 1) =>
            /\ ao'.occlusion \in {ao.occlusion, ao.occlusion + Float(1)}
            /\ (ao'.occlusion = ao.occlusion + Float(1))
                 <=> (Positive(objects, ao'.ray, Pow10(9)) # {})]_vars
    /\ [](gpc \in {"ao", "ao_returned"} =>
            /\ ao.n <= AOTotal
            /\ 0 <= ao.occlusion /\ ao.occlusion <= Float(ao.n))
    /\ [](gpc = "ao_returned" =>
            /\ ao.n = AOTotal
            /\ 0 <= ao_result /\ ao_result <= Float(1)
            /\ ao_result * AOTotal = Float(AOTotal) - ao.occlusion)

\* C4's case: ambient_occlusion has returned after some samples met an
\* object and others met none.
C4_Witness ==
    /\ gpc = "ao_returned"
    /\ 0 < ao.occlusion /\ ao.occlusion < Float(AOTotal)
    /\ 0 < ao_result /\ ao_result < Float(1)

(***************************************************************************)
(* The end of render_line's loop over _x: the accumulated occlusion of a   *)
(* pixel becomes the pixel.                                                *)
(***************************************************************************)
\* uint::min
Min(a, b) == IF a < b THEN a ELSE b

\* Pixel::new_with_clamp without the uint::min: `v as u8` keeps the low byte.
new_with_clampMutant(value, mag) ==
    LET v == FMul(value, mag) \div UNIT
        c == v % 256
    IN  Pixel(c, c, c)

\* Pixel::new_with_clamp: `(value * mag) as uint` truncates.
new_with_clamp(value, mag) ==
    LET v == FMul(value, mag) \div UNIT
        c == Min(255, v)
    IN  Pixel(c, c, c)

\* `if occlusion > 0.0001 { ... } else { ... }`
ResolvePixel(occ, ns) ==
    IF GreaterThanRatio(occ, 1, 10000)
    THEN new_with_clamp(FDiv(occ, Float(ns * ns)), Float(255))
    ELSE Pixel(0, 0, 0)

\* The accumulator is a sum of values ambient_occlusion returned, all of
\* them multiples of 1/(NAO_SAMPLES*NAO_SAMPLES); sums beyond the
\* subsamples*subsamples the loops can reach are included.
MaxAccum == 320

\* The subsample counts for which accumulator / subsamples^2 is a multiple
\* of 1/UNIT; main passes NSUBSAMPLES.
SubsampleSet == {1, NSUBSAMPLES}

InitResolve ==
    /\ gpc = "resolve"
    /\ nsubsamples \in SubsampleSet
    /\ \E m \in 0..MaxAccum : occlusion = Ratio(m, NAO_SAMPLES * NAO_SAMPLES)
    /\ linebuf = <<>>
    /\ _y = 0 /\ _x = 0 /\ _u = 0 /\ _v = 0
    /\ rng = 0 /\ ao_calls = 0 /\ candidates = 0
    /\ MTIdle /\ RayIdle /\ AOIdle /\ PPMIdle

Resolve ==
    /\ gpc = "resolve"
    /\ linebuf' = Append(linebuf, ResolvePixel(occlusion, nsubsamples))
    /\ gpc' = "resolved"
    /\ UNCHANGED <<nsubsamples, _y, _x, _u, _v, occlusion, rng, ao_calls, candidates>>
    /\ UNCHANGED notLine
    /\ UNCHANGED <<sizeVars, rayVars, aoVars>>

NextResolve == Resolve

SpecResolve == InitResolve /\ [][NextResolve]_vars

\* C7: an accumulator above 0.0001 gives the byte
\* min(255, floor(255 * accumulator / subsamples^2)) in r, g and b, any other
\* accumulator gives (0,0,0); 4.0 over 4 sub-samples gives 255, and no byte
\* exceeds 255 or differs from the other two.
C7_PixelResolve ==
    gpc = "resolved" =>
        LET p == linebuf[Len(linebuf)]
            byte == Min(255, (255 * occlusion) \div (nsubsamples * nsubsamples * UNIT))
        IN  /\ Len(linebuf) = 1
            /\ p.r = p.g /\ p.g = p.b
            /\ p.r \in 0..255
            /\ (occlusion * 10000 > UNIT) => p.r = byte
            /\ (occlusion * 10000 <= UNIT) => p.r = 0
            /\ (occlusion = Float(4) /\ nsubsamples = 2) => p.r = 255

\* C7's case: a pixel resolved from an accumulator beyond subsamples^2, where
\* the clamp decides the byte.
C7_Witness ==
    /\ gpc = "resolved"
    /\ nsubsamples = 2
    /\ occlusion > Float(4)
    /\ linebuf = <<Pixel(255, 255, 255)>>

(***************************************************************************)
(* render_line, one step at a time.                                        *)
(***************************************************************************)
\* `if hit { ... }` entered whatever the traversal found.
ShadesMutant(h) == TRUE
\* `if hit { occlusion += ambient_occlusion(isect, rng, objects); }`
Shades(h) == h

\* The seeds the task's generator may start from.
MaxSeed == 1

LineScenes == {MainScene, <<>>, <<MainScene[1], MainScene[2], MainScene[3]>>}

InitLine ==
    /\ gpc = "line_x"
    /\ width \in 0..MaxImage
    /\ height \in 1..MaxImage
    /\ _y \in 0..(height - 1)
    /\ nsubsamples = NSUBSAMPLES
    /\ objects \in LineScenes
    /\ rng \in 0..MaxSeed
    /\ _x = 0 /\ _u = 0 /\ _v = 0
    /\ occlusion = 0
    /\ linebuf = <<>>
    /\ ao_calls = 0
    /\ candidates = 0
    /\ obj = 0 /\ ray = 0 /\ isect = 0 /\ before = 0 /\ ret = FALSE
    /\ visited = 0 /\ hit = FALSE /\ committed = 0
    /\ TaskIdle /\ AOIdle /\ PPMIdle

\* `for uint::range(0u, width) |_x| { let mut occlusion = 0.0f;`
LinePixel ==
    /\ gpc = "line_x" /\ _x < width
    /\ occlusion' = 0
    /\ _u' = 0 /\ _v' = 0
    /\ ao_calls' = 0 /\ candidates' = 0
    /\ gpc' = "line_ray"
    /\ UNCHANGED <<nsubsamples, _y, _x, linebuf, rng, rayVars, sizeVars, aoVars>>
    /\ UNCHANGED notLine

\* The sub-sample's ray and its fresh record.  `candidates` counts the
\* sub-samples of the pixel whose ray has an object in front of it.
LineRay ==
    /\ gpc = "line_ray"
    /\ ray' = PrimaryRay(width, height, nsubsamples, _x, _y, _u, _v)
    /\ isect' = NewIntersectInfo(Pow10(17))
    /\ hit' = FALSE
    /\ visited' = 0 /\ committed' = 0 /\ ret' = FALSE
    /\ before' = isect'
    /\ candidates' = candidates
                     + (IF Positive(objects, ray', Pow10(17)) # {} THEN 1 ELSE 0)
    /\ gpc' = "line_objects"
    /\ UNCHANGED <<objects, obj, sizeVars, aoVars>>
    /\ UNCHANGED <<nsubsamples, _y, _x, _u, _v, occlusion, linebuf, rng, ao_calls>>
    /\ UNCHANGED notLine

\* `for objects.each |o| { let h = o.intersect(&ray, isect); hit = (hit || h); }`
LineIntersect ==
    /\ gpc = "line_objects" /\ visited < Len(objects)
    /\ LET st == TraverseStep([hit |-> hit, isect |-> isect, n |-> visited, by |-> committed],
                              objects[visited + 1], ray)
       IN  /\ hit' = st.hit
           /\ isect' = st.isect
           /\ visited' = st.n
           /\ committed' = st.by
           /\ ret' = (st.by = st.n)
    /\ before' = isect
    /\ UNCHANGED <<gpc, objects, obj, ray, sizeVars, lineVars, aoVars>>
    /\ UNCHANGED notLine

\* Where the loops over _u and _v go next.
NextSubsample(a) ==
    IF a._v + 1 < nsubsamples THEN [_u |-> a._u, _v |-> a._v + 1, gpc |-> "line_ray"]
    ELSE IF a._u + 1 < nsubsamples THEN [_u |-> a._u + 1, _v |-> 0, gpc |-> "line_ray"]
    ELSE [_u |-> a._u, _v |-> a._v, gpc |-> "line_resolve"]

\* The traversal found an object: ambient_occlusion is entered.
LineShadeHit ==
    /\ gpc = "line_objects" /\ visited = Len(objects)
    /\ Shades(hit)
    /\ ao' = AOStart(rng)
    /\ ao_calls' = ao_calls + 1
    /\ gpc' = "line_ao"
    /\ UNCHANGED <<nsubsamples, _y, _x, _u, _v, occlusion, linebuf, rng, candidates>>
    /\ UNCHANGED <<ao_result, rayVars, sizeVars>>
    /\ UNCHANGED notLine

\* One sample of the ambient_occlusion call.
LineAOSample ==
    /\ gpc = "line_ao" /\ ao.n < AOTotal
    /\ ao' = AOSample(ao, AOOrigin(isect), ortho_basis(isect.normal), objects)
    /\ UNCHANGED <<gpc, ao_result, rayVars, sizeVars, lineVars>>
    /\ UNCHANGED notLine

\* ambient_occlusion returns: `occlusion += ...`, with the task's generator
\* advanced by the samples drawn.
LineAOReturn ==
    /\ gpc = "line_ao" /\ ao.n = AOTotal
    /\ ao_result' = AOValue(ao.occlusion)
    /\ occlusion' = occlusion + ao_result'
    /\ rng' = ao.rng
    /\ LET nx == NextSubsample([_u |-> _u, _v |-> _v])
       IN  _u' = nx._u /\ _v' = nx._v /\ gpc' = nx.gpc
    /\ UNCHANGED <<nsubsamples, _y, _x, linebuf, ao_calls, candidates>>
    /\ UNCHANGED <<ao, rayVars, sizeVars>>
    /\ UNCHANGED notLine

\* The traversal found nothing.
LineShadeMiss ==
    /\ gpc = "line_objects" /\ visited = Len(objects)
    /\ ~Shades(hit)
    /\ LET nx == NextSubsample([_u |-> _u, _v |-> _v])
       IN  _u' = nx._u /\ _v' = nx._v /\ gpc' = nx.gpc
    /\ UNCHANGED <<nsubsamples, _y, _x, occlusion, linebuf, rng, ao_calls, candidates>>
    /\ UNCHANGED <<rayVars, sizeVars, aoVars>>
    /\ UNCHANGED notLine

\* The pixel is pushed.
LineResolve ==
    /\ gpc = "line_resolve"
    /\ linebuf' = Append(linebuf, ResolvePixel(occlusion, nsubsamples))
    /\ _x' = _x + 1
    /\ gpc' = "line_x"
    /\ UNCHANGED <<nsubsamples, _y, _u, _v, occlusion, rng, ao_calls, candidates>>
    /\ UNCHANGED <<rayVars, sizeVars, aoVars>>
    /\ UNCHANGED notLine

\* `return line;`
LineReturn ==
    /\ gpc = "line_x" /\ _x = width
    /\ gpc' = "line_returned"
    /\ UNCHANGED <<rayVars, sizeVars, lineVars, aoVars>>
    /\ UNCHANGED notLine

NextLine ==
    \/ LinePixel \/ LineRay \/ LineIntersect
    \/ LineShadeHit \/ LineAOSample \/ LineAOReturn
    \/ LineShadeMiss \/ LineResolve \/ LineReturn

SpecLine == InitLine /\ [][NextLine]_vars

LineStates ==
    {"line_x", "line_ray", "line_objects", "line_ao", "line_resolve", "line_returned"}

\* C8: a pixel all of whose sub-sample rays have no object in front of them
\* is pushed as exactly (0,0,0); ambient_occlusion is not called for a ray
\* with no object in front of it, and such a sub-sample leaves the pixel's
\* accumulator (and the generator) as they were.
C8_MissIsBlack ==
    /\ [][(gpc = "line_resolve" /\ candidates = 0) =>
            /\ Len(linebuf') = Len(linebuf) + 1
            /\ linebuf'[Len(linebuf')] = Pixel(0, 0, 0)]_vars
    /\ [][(gpc = "line_objects" /\ visited = Len(objects)
           /\ Positive(objects, ray, Pow10(17)) = {}) =>
            /\ gpc' # "line_ao"
            /\ ao_calls' = ao_calls
            /\ occlusion' = occlusion
            /\ rng' = rng]_vars
    /\ [](gpc \in LineStates => ao_calls <= candidates)
    /\ []((gpc \in LineStates /\ candidates = 0) => occlusion = 0)

\* C8's case: a black pixel has been pushed for a pixel whose four rays all
\* missed a scene that has objects, in a line where another pixel was shaded.
C8_Witness ==
    /\ gpc = "line_x"
    /\ objects = MainScene
    /\ Len(linebuf) = 1
    /\ candidates = 0 /\ ao_calls = 0
    /\ linebuf[1] = Pixel(0, 0, 0)

(***************************************************************************)
(* saveppm, in both revisions.  Text is written as its ASCII bytes.        *)
(***************************************************************************)
RECURSIVE FormatUint(_)
\* `%u` of fmt!: the decimal digits of n, most significant first.
FormatUint(n) ==
    IF n < 10 THEN <<48 + n>>
    ELSE FormatUint(n \div 10) \o <<48 + (n % 10)>>

\* "P6\n%u %u\n255\n" (ao.rs) and "P6\n256 256\n255\n" (main.rs).
Header(rev, w, h) ==
    IF rev = "ao.rs"
    THEN <<80, 54, 10>> \o FormatUint(w) \o <<32>> \o FormatUint(h)
         \o <<10, 50, 53, 53, 10>>
    ELSE <<80, 54, 10, 50, 53, 54, 32, 50, 53, 54, 10, 50, 53, 53, 10>>

\* `writer.write([pixel.r, pixel.g, pixel.b]);`
PixelBytes(p) == <<p.r, p.g, p.b>>

MaxPixels == 2

PixelSet == {Pixel(0, 0, 0), Pixel(1, 2, 3), Pixel(255, 255, 255), Pixel(10, 32, 48)}

\* Widths and heights saveppm is called with; 256 is what main passes.
SizeSet == {0, 1, 2, 10, 256}

InitPPM ==
    /\ gpc = "ppm_header"
    /\ revision \in {"ao.rs", "main.rs"}
    /\ width \in SizeSet
    /\ height \in SizeSet
    /\ \E n \in 0..MaxPixels : pixels \in [1..n -> PixelSet]
    /\ file = <<>>
    /\ written = 0
    /\ num_task = 0 /\ rows = <<>> /\ pc = "idle" /\ i = 0
    /\ senders = <<>> /\ receivers = <<>> /\ result_store = <<>>
    /\ rendered_line = 0 /\ assigned_line = 0
    /\ wpc = <<>> /\ wline = <<>> /\ sent = <<>> /\ writes = <<>>
    /\ received = <<>> /\ failed = FALSE
    /\ RayIdle /\ LineIdle /\ AOIdle

\* `writer.write_str(...)`
SaveHeader ==
    /\ gpc = "ppm_header"
    /\ file' = file \o Header(revision, width, height)
    /\ gpc' = "ppm_pixels"
    /\ UNCHANGED <<revision, written, sizeVars, pixels>>
    /\ UNCHANGED notPPM

\* One iteration of the loop over the pixels.
SavePixel ==
    /\ gpc = "ppm_pixels" /\ written < Len(pixels)
    /\ file' = file \o PixelBytes(pixels[written + 1])
    /\ written' = written + 1
    /\ UNCHANGED <<revision, sizeVars, pixels, gpc>>
    /\ UNCHANGED notPPM

\* The loop ends and saveppm returns.
SaveDone ==
    /\ gpc = "ppm_pixels" /\ written = Len(pixels)
    /\ gpc' = "ppm_saved"
    /\ UNCHANGED <<revision, file, written, sizeVars, pixels>>
    /\ UNCHANGED notPPM

NextPPM == SaveHeader \/ SavePixel \/ SaveDone

SpecPPM == InitPPM /\ [][NextPPM]_vars

\* How a reader of the file takes a decimal number starting at `pos`: the
\* value read so far and the position of the first byte that is no digit.
RECURSIVE ReadUint(_, _, _)
ReadUint(b, pos, acc) ==
    IF pos <= Len(b) /\ b[pos] \in 48..57
    THEN ReadUint(b, pos + 1, 10 * acc + (b[pos] - 48))
    ELSE [value |-> acc, next |-> pos]

\* The file read as a P6 image: its dimensions and where its raster starts;
\* ok is false when the bytes do not begin with a "P6\n<w> <h>\n255\n" header.
ReadHeader(b) ==
    LET w == ReadUint(b, 4, 0)
        h == ReadUint(b, w.next + 1, 0)
    IN  [ok |-> /\ Len(b) >= h.next + 4
                /\ SubSeq(b, 1, 3) = <<80, 54, 10>>
                /\ w.next > 4 /\ b[w.next] = 32
                /\ h.next > w.next + 1
                /\ SubSeq(b, h.next, h.next + 4) = <<10, 50, 53, 53, 10>>,
         width |-> w.value,
         height |-> h.value,
         raster |-> h.next + 5]

\* The file saveppm leaves has a header giving the width and height it was
\* passed, then r, g, b of each pixel in sequence order and nothing else.
Conforms ==
    LET hd == ReadHeader(file)
        raster == SubSeq(file, hd.raster, Len(file))
    IN  /\ hd.ok
        /\ hd.width = width
        /\ hd.height = height
        /\ Len(raster) = 3 * Len(pixels)
        /\ \A n \in 1..Len(pixels) :
              /\ raster[3 * n - 2] = pixels[n].r
              /\ raster[3 * n - 1] = pixels[n].g
              /\ raster[3 * n] = pixels[n].b
        /\ (Len(pixels) = width * height) => (Len(raster) = width * height * 3)

====
